---- MODULE Spec2Model ----
(***************************************************************************)
(* Model of brand_name_generator.py: the name-parsing step, the            *)
(* availability heuristic (check_domain_availability and                   *)
(* is_likely_taken_business_name) and the bounded generate-and-validate    *)
(* session (generate_names_with_domain_validation).                        *)
(*                                                                         *)
(* A Python str is a sequence of one-character strings, so that strip,     *)
(* lstrip, lower, replace, endswith and "in" are computed as Python        *)
(* computes them.                                                          *)
(***************************************************************************)
EXTENDS Integers, Sequences, FiniteSets, TLC

(***************************************************************************)
(* Characters and the str methods the code uses.                           *)
(***************************************************************************)
UpperChars ==
    << "A", "B", "C", "D", "E", "F", "G", "H", "I", "J", "K", "L", "M",
       "N", "O", "P", "Q", "R", "S", "T", "U", "V", "W", "X", "Y", "Z" >>

LowerChars ==
    << "a", "b", "c", "d", "e", "f", "g", "h", "i", "j", "k", "l", "m",
       "n", "o", "p", "q", "r", "s", "t", "u", "v", "w", "x", "y", "z" >>

Digits == {"0", "1", "2", "3", "4", "5", "6", "7", "8", "9"}

Letters == {UpperChars[i] : i \in 1..26} \cup {LowerChars[i] : i \in 1..26}

\* The characters str.strip() removes (of those the model's texts use).
Whitespace == {" ", "\t", "\n", "\r"}

Range(s) == {s[i] : i \in 1..Len(s)}

\* str.lower(), one character.
LowerChar(c) ==
    IF \E i \in 1..26 : UpperChars[i] = c
    THEN LowerChars[CHOOSE i \in 1..26 : UpperChars[i] = c]
    ELSE c

\* str.lower()
Lower(s) == [i \in 1..Len(s) |-> LowerChar(s[i])]

\* str.lstrip(chars): drop the longest prefix made of characters of chars.
RECURSIVE LStrip(_, _)
LStrip(s, chars) ==
    IF s = <<>> \/ Head(s) \notin chars THEN s ELSE LStrip(Tail(s), chars)

\* str.rstrip(chars)
RECURSIVE RStrip(_, _)
RStrip(s, chars) ==
    IF s = <<>> \/ s[Len(s)] \notin chars THEN s
    ELSE RStrip(SubSeq(s, 1, Len(s) - 1), chars)

\* str.strip(): whitespace off both ends.
Strip(s) == RStrip(LStrip(s, Whitespace), Whitespace)

\* s.replace(c, ''), for every character c of chars.
Remove(s, chars) == SelectSeq(s, LAMBDA c : c \notin chars)

\* p in s (substring test)
Contains(s, p) ==
    \E i \in 0..(Len(s) - Len(p)) : SubSeq(s, i + 1, i + Len(p)) = p

\* s.startswith(p)
StartsWith(s, p) == Len(p) <= Len(s) /\ SubSeq(s, 1, Len(p)) = p

\* s.endswith(p)
EndsWith(s, p) ==
    Len(p) <= Len(s) /\ SubSeq(s, Len(s) - Len(p) + 1, Len(s)) = p

\* str.isalnum(): non-empty, letters and digits only.
IsAlnum(s) == s # <<>> /\ Range(s) \subseteq (Letters \cup Digits)

\* str.isalpha()
IsAlpha(s) == s # <<>> /\ Range(s) \subseteq Letters

\* str.split('\n'): the pieces between the newlines, empty pieces kept.
RECURSIVE SplitLines(_)
SplitLines(text) ==
    IF \A i \in 1..Len(text) : text[i] # "\n" THEN << text >>
    ELSE LET k == CHOOSE i \in 1..Len(text) :
                      text[i] = "\n" /\ \A j \in 1..(i - 1) : text[j] # "\n"
         IN  << SubSeq(text, 1, k - 1) >>
                 \o SplitLines(SubSeq(text, k + 1, Len(text)))

\* '\n'.join(lines)
RECURSIVE JoinLines(_)
JoinLines(lines) ==
    IF lines = <<>> THEN <<>>
    ELSE IF Len(lines) = 1 THEN lines[1]
    ELSE lines[1] \o << "\n" >> \o JoinLines(Tail(lines))

(***************************************************************************)
(* The word lists of is_likely_taken_business_name and                     *)
(* check_domain_availability.                                              *)
(***************************************************************************)

common_patterns ==
    << <<"t", "e", "c", "h">>, <<"d", "i", "g", "i", "t", "a", "l">>, <<"s", "m", "a", "r", "t">>,
       <<"p", "r", "o">>, <<"m", "a", "x">>, <<"u", "l", "t", "r", "a">>,
       <<"m", "e", "g", "a">>, <<"s", "u", "p", "e", "r">>, <<"q", "u", "i", "c", "k">>,
       <<"f", "a", "s", "t">>, <<"e", "a", "s", "y">>, <<"s", "i", "m", "p", "l", "e">>,
       <<"b", "e", "s", "t">>, <<"t", "o", "p">>, <<"p", "r", "i", "m", "e">>,
       <<"e", "l", "i", "t", "e">>, <<"p", "r", "e", "m", "i", "u", "m">>, <<"g", "o", "l", "d">>,
       <<"s", "i", "l", "v", "e", "r">>, <<"p", "l", "a", "t", "i", "n", "u", "m">>, <<"d", "i", "a", "m", "o", "n", "d">>,
       <<"c", "r", "y", "s", "t", "a", "l">>, <<"g", "l", "o", "b", "a", "l">>, <<"w", "o", "r", "l", "d">>,
       <<"u", "n", "i", "v", "e", "r", "s", "e">>, <<"p", "l", "a", "n", "e", "t">>, <<"s", "p", "a", "c", "e">>,
       <<"c", "o", "s", "m", "i", "c">>, <<"g", "a", "l", "a", "x", "y">>, <<"i", "n", "t", "e", "r", "n", "a", "t", "i", "o", "n", "a", "l">>,
       <<"w", "o", "r", "l", "d", "w", "i", "d", "e">>, <<"u", "n", "i", "v", "e", "r", "s", "a", "l">>, <<"i", "n", "f", "i", "n", "i", "t", "e">>,
       <<"e", "t", "e", "r", "n", "a", "l">>, <<"f", "u", "t", "u", "r", "e">>, <<"n", "e", "x", "t">>,
       <<"n", "e", "w">>, <<"m", "o", "d", "e", "r", "n">>, <<"a", "d", "v", "a", "n", "c", "e", "d">>,
       <<"c", "u", "t", "t", "i", "n", "g">>, <<"e", "d", "g", "e">>, <<"i", "n", "n", "o", "v", "a", "t", "i", "v", "e">>,
       <<"c", "r", "e", "a", "t", "i", "v", "e">>, <<"d", "y", "n", "a", "m", "i", "c">>, <<"r", "e", "v", "o", "l", "u", "t", "i", "o", "n", "a", "r", "y">>,
       <<"b", "r", "e", "a", "k", "t", "h", "r", "o", "u", "g", "h">>, <<"s", "o", "l", "u", "t", "i", "o", "n", "s">>, <<"s", "y", "s", "t", "e", "m", "s">>,
       <<"s", "e", "r", "v", "i", "c", "e", "s">>, <<"g", "r", "o", "u", "p">>, <<"c", "o", "r", "p">>,
       <<"i", "n", "c">>, <<"l", "l", "c">>, <<"l", "a", "b", "s">>,
       <<"w", "o", "r", "k", "s">>, <<"s", "t", "u", "d", "i", "o">>, <<"a", "g", "e", "n", "c", "y">>,
       <<"c", "o", "n", "s", "u", "l", "t", "i", "n", "g">>, <<"e", "n", "t", "e", "r", "p", "r", "i", "s", "e", "s">>, <<"v", "e", "n", "t", "u", "r", "e", "s">>,
       <<"h", "o", "l", "d", "i", "n", "g", "s">>, <<"i", "n", "d", "u", "s", "t", "r", "i", "e", "s">>, <<"t", "e", "c", "h", "n", "o", "l", "o", "g", "i", "e", "s">>,
       <<"i", "n", "n", "o", "v", "a", "t", "i", "o", "n", "s">>, <<"c", "r", "e", "a", "t", "i", "v", "e">>, <<"d", "e", "s", "i", "g", "n">>,
       <<"a", "r", "t">>, <<"c", "r", "a", "f", "t">>, <<"f", "o", "r", "g", "e">>,
       <<"f", "o", "u", "n", "d", "r", "y">>, <<"m", "i", "l", "l">>, <<"f", "a", "c", "t", "o", "r", "y">>,
       <<"w", "o", "r", "k", "s", "h", "o", "p">>, <<"a", "t", "e", "l", "i", "e", "r">>, <<"b", "o", "u", "t", "i", "q", "u", "e">>,
       <<"g", "a", "l", "l", "e", "r", "y">>, <<"s", "t", "u", "d", "i", "o">>, <<"m", "i", "n", "d">>,
       <<"w", "r", "i", "t", "e">>, <<"g", "e", "n">>, <<"s", "m", "i", "t", "h">>,
       <<"v", "e", "r", "b">>, <<"i", "n", "t", "e", "l", "l", "i">>, <<"s", "c", "r", "i", "b", "b", "l", "e">>,
       <<"w", "o", "r", "d">>, <<"t", "e", "x", "t">>, <<"c", "o", "n", "t", "e", "n", "t">>,
       <<"c", "o", "p", "y">>, <<"s", "c", "r", "i", "p", "t">>, <<"d", "r", "a", "f", "t">>,
       <<"e", "d", "i", "t">>, <<"g", "r", "a", "m", "m", "a", "r">>, <<"l", "a", "n", "g", "u", "a", "g", "e">>,
       <<"l", "i", "n", "g", "u", "i", "s", "t", "i", "c">>, <<"v", "o", "c", "a", "b", "u", "l", "a", "r", "y">>, <<"d", "i", "c", "t", "i", "o", "n", "a", "r", "y">> >>

ai_tech_terms ==
    << <<"a", "i">>, <<"m", "l">>, <<"d", "a", "t", "a">>,
       <<"c", "l", "o", "u", "d">>, <<"a", "p", "p">>, <<"w", "e", "b">>,
       <<"m", "o", "b", "i", "l", "e">>, <<"s", "o", "f", "t", "w", "a", "r", "e">>, <<"p", "l", "a", "t", "f", "o", "r", "m">>,
       <<"a", "p", "i">>, <<"s", "d", "k">>, <<"d", "e", "v">>,
       <<"c", "o", "d", "e">>, <<"t", "e", "c", "h">>, <<"d", "i", "g", "i", "t", "a", "l">>,
       <<"i", "n", "t", "e", "l", "l", "i">>, <<"s", "m", "a", "r", "t">>, <<"a", "u", "t", "o">>,
       <<"r", "o", "b", "o">>, <<"c", "y", "b", "e", "r">>, <<"n", "e", "o">>,
       <<"q", "u", "a", "n", "t", "u", "m">>, <<"b", "l", "o", "c", "k", "c", "h", "a", "i", "n">>, <<"c", "r", "y", "p", "t", "o">>,
       <<"f", "i", "n", "t", "e", "c", "h">>, <<"e", "d", "t", "e", "c", "h">>, <<"h", "e", "a", "l", "t", "h", "t", "e", "c", "h">>,
       <<"p", "r", "o", "g", "r", "a", "m", "m", "i", "n", "g">>, <<"c", "o", "d", "i", "n", "g">>, <<"d", "e", "v", "e", "l", "o", "p", "m", "e", "n", "t">>,
       <<"e", "n", "g", "i", "n", "e", "e", "r", "i", "n", "g">>, <<"a", "r", "c", "h", "i", "t", "e", "c", "t", "u", "r", "e">>, <<"f", "r", "a", "m", "e", "w", "o", "r", "k">>,
       <<"l", "i", "b", "r", "a", "r", "y">>, <<"t", "o", "o", "l", "k", "i", "t">>, <<"s", "u", "i", "t", "e">>,
       <<"p", "a", "c", "k", "a", "g", "e">>, <<"m", "o", "d", "u", "l", "e">>, <<"v", "i", "r", "t", "u", "a", "l">>,
       <<"a", "u", "g", "m", "e", "n", "t", "e", "d">>, <<"m", "i", "x", "e", "d">>, <<"r", "e", "a", "l", "i", "t", "y">>,
       <<"m", "e", "t", "a", "v", "e", "r", "s", "e">>, <<"n", "f", "t">>, <<"m", "a", "c", "h", "i", "n", "e">>,
       <<"l", "e", "a", "r", "n", "i", "n", "g">>, <<"d", "e", "e", "p">>, <<"n", "e", "u", "r", "a", "l">>,
       <<"a", "l", "g", "o", "r", "i", "t", "h", "m">>, <<"m", "o", "d", "e", "l">> >>

business_prefixes ==
    << <<"n", "e", "w">>, <<"p", "r", "o">>, <<"s", "m", "a", "r", "t">>,
       <<"d", "i", "g", "i", "t", "a", "l">>, <<"g", "l", "o", "b", "a", "l">>, <<"w", "o", "r", "l", "d">>,
       <<"f", "u", "t", "u", "r", "e">> >>

generic_combinations ==
    << <<"n", "e", "w", " ", "t", "e", "c", "h">>, <<"p", "r", "o", " ", "s", "o", "l", "u", "t", "i", "o", "n", "s">>,
       <<"s", "m", "a", "r", "t", " ", "s", "y", "s", "t", "e", "m", "s">>, <<"d", "i", "g", "i", "t", "a", "l", " ", "s", "e", "r", "v", "i", "c", "e", "s">>,
       <<"g", "l", "o", "b", "a", "l", " ", "t", "e", "c", "h">>, <<"w", "o", "r", "l", "d", " ", "s", "o", "l", "u", "t", "i", "o", "n", "s">>,
       <<"f", "u", "t", "u", "r", "e", " ", "s", "y", "s", "t", "e", "m", "s">>, <<"n", "e", "x", "t", " ", "g", "e", "n", "e", "r", "a", "t", "i", "o", "n">> >>

common_words ==
    << <<"a", "p", "p", "l", "e">>, <<"g", "o", "o", "g", "l", "e">>, <<"m", "i", "c", "r", "o", "s", "o", "f", "t">>,
       <<"a", "m", "a", "z", "o", "n">>, <<"f", "a", "c", "e", "b", "o", "o", "k">>, <<"t", "w", "i", "t", "t", "e", "r">>,
       <<"l", "i", "n", "k", "e", "d", "i", "n">>, <<"i", "n", "s", "t", "a", "g", "r", "a", "m">>, <<"y", "o", "u", "t", "u", "b", "e">>,
       <<"n", "e", "t", "f", "l", "i", "x">>, <<"s", "p", "o", "t", "i", "f", "y">>, <<"u", "b", "e", "r">>,
       <<"a", "i", "r", "b", "n", "b">>, <<"t", "e", "s", "l", "a">>, <<"s", "p", "a", "c", "e", "x">>,
       <<"o", "p", "e", "n", "a", "i">>, <<"a", "n", "t", "h", "r", "o", "p", "i", "c">>, <<"s", "t", "r", "i", "p", "e">>,
       <<"p", "a", "y", "p", "a", "l">>, <<"s", "q", "u", "a", "r", "e">>, <<"s", "h", "o", "p", "i", "f", "y">>,
       <<"s", "a", "l", "e", "s", "f", "o", "r", "c", "e">>, <<"o", "r", "a", "c", "l", "e">>, <<"i", "b", "m">> >>

taken_business_suffixes ==
    << <<"c", "o", "r", "p">>, <<"i", "n", "c">>, <<"l", "l", "c">>,
       <<"l", "t", "d">>, <<"c", "o">>, <<"g", "r", "o", "u", "p">>,
       <<"s", "y", "s", "t", "e", "m", "s">>, <<"s", "o", "l", "u", "t", "i", "o", "n", "s">> >>

business_suffixes ==
    << <<"i", "n", "c">>, <<"l", "l", "c">>, <<"c", "o", "r", "p">>,
       <<"l", "t", "d">>, <<"c", "o">>, <<"g", "r", "o", "u", "p">>,
       <<"s", "y", "s", "t", "e", "m", "s">>, <<"s", "o", "l", "u", "t", "i", "o", "n", "s">>, <<"t", "e", "c", "h">>,
       <<"d", "i", "g", "i", "t", "a", "l">> >>

extensions ==
    << <<".", "c", "o", "m">>, <<".", "n", "e", "t">>, <<".", "o", "r", "g">>, <<".", "i", "o">>, <<".", "c", "o">>, <<".", "b", "i", "z">>, <<".", "i", "n", "f", "o">> >>

\* The extensions whose resolution alone rejects a name (line 398).
major_extensions == << <<".", "c", "o", "m">>, <<".", "n", "e", "t">>, <<".", "o", "r", "g">> >>

(***************************************************************************)
(* is_likely_taken_business_name                                           *)
(***************************************************************************)
AnyContained(s, list) == \E i \in 1..Len(list) : Contains(s, list[i])

\* Mutant of IsLikelyTakenBusinessName: the loop over ai_tech_terms left out.
IsLikelyTakenBusinessName_NoTechTerms(name) ==
    IF name = <<>> \/ Len(Strip(name)) < 2 THEN TRUE
    ELSE LET name_lower == Strip(Lower(name))
         IN  \/ AnyContained(name_lower, common_patterns)
             \/ \E i \in 1..Len(taken_business_suffixes) :
                    EndsWith(name_lower, taken_business_suffixes[i])
             \/ \E i \in 1..Len(business_prefixes) :
                    StartsWith(name_lower, business_prefixes[i])
             \/ AnyContained(name_lower, generic_combinations)

IsLikelyTakenBusinessName(name) ==
    IF name = <<>> \/ Len(Strip(name)) < 2 THEN TRUE
    ELSE LET name_lower == Strip(Lower(name))
         IN  \/ AnyContained(name_lower, common_patterns)
             \/ AnyContained(name_lower, ai_tech_terms)
             \/ \E i \in 1..Len(taken_business_suffixes) :
                    EndsWith(name_lower, taken_business_suffixes[i])
             \/ \E i \in 1..Len(business_prefixes) :
                    StartsWith(name_lower, business_prefixes[i])
             \/ AnyContained(name_lower, generic_combinations)

(***************************************************************************)
(* check_domain_availability                                               *)
(***************************************************************************)
\* What one socket.gethostbyname call can do: return an address, raise
\* socket.gaierror, raise socket.timeout, raise anything else.
LookupOutcomes == {"resolved", "gaierror", "timeout", "error"}

\* The state of the resolver seen by one call: the outcome of the lookup of
\* each extension, by its position in extensions.
DnsVectors == [1..Len(extensions) -> LookupOutcomes]

\* The loop of lines 374-376: every suffix of the list is tried once, in
\* the list's order, on the name as the earlier ones left it.
RECURSIVE StripSuffixes(_, _)
\* Mutant of StripSuffixes: the loop stops at the first suffix it removed.
RECURSIVE StripSuffixes_FirstOnly(_, _)
StripSuffixes_FirstOnly(clean_name, i) ==
    IF i > Len(business_suffixes) THEN clean_name
    ELSE LET suffix == business_suffixes[i]
         IN  IF EndsWith(clean_name, suffix)
             THEN SubSeq(clean_name, 1, Len(clean_name) - Len(suffix))
             ELSE StripSuffixes_FirstOnly(clean_name, i + 1)

StripSuffixes(clean_name, i) ==
    IF i > Len(business_suffixes) THEN clean_name
    ELSE LET suffix == business_suffixes[i]
         IN  IF EndsWith(clean_name, suffix)
             THEN StripSuffixes(SubSeq(clean_name, 1, Len(clean_name) - Len(suffix)), i + 1)
             ELSE StripSuffixes(clean_name, i + 1)

\* Lines 369-376: the cleaned name.
CleanName(domain_name) ==
    StripSuffixes(Remove(Strip(Lower(domain_name)), {" ", "-", "_", "."}), 1)

\* Mutant of ProbeStep: a timeout is treated like socket.gaierror.
ProbeStep_TimeoutContinues(outcome, ext, count) ==
    CASE outcome = "resolved" ->
             [returns |-> \E k \in 1..Len(major_extensions) : major_extensions[k] = ext,
              count   |-> count + 1]
      [] outcome \in {"gaierror", "timeout"} -> [returns |-> FALSE, count |-> count]
      [] OTHER -> [returns |-> TRUE, count |-> count]

\* Mutant of ProbeStep: only .com counts as a major extension.
ProbeStep_OnlyComIsMajor(outcome, ext, count) ==
    CASE outcome = "resolved" ->
             [returns |-> ext = major_extensions[1], count |-> count + 1]
      [] outcome = "gaierror" -> [returns |-> FALSE, count |-> count]
      [] outcome = "timeout"  -> [returns |-> TRUE,  count |-> count]
      [] OTHER                -> [returns |-> TRUE,  count |-> count]

\* One iteration of the lookup loop (lines 391-407) on an outcome: whether
\* the function returns False at once, and the count of resolved extensions.
ProbeStep(outcome, ext, count) ==
    CASE outcome = "resolved" ->
             [returns |-> \E k \in 1..Len(major_extensions) : major_extensions[k] = ext,
              count   |-> count + 1]
      [] outcome = "gaierror" -> [returns |-> FALSE, count |-> count]
      [] outcome = "timeout"  -> [returns |-> TRUE,  count |-> count]
      [] OTHER                -> [returns |-> TRUE,  count |-> count]

\* The lookup loop from extension i on: whether it returned False, the
\* count of resolved extensions, and the number of lookups made.
RECURSIVE ProbeLoop(_, _, _)
ProbeLoop(dns, i, count) ==
    IF i > Len(extensions)
    THEN [returned |-> FALSE, count |-> count, lookups |-> i - 1]
    ELSE LET step == ProbeStep(dns[i], extensions[i], count)
         IN  IF step.returns
             THEN [returned |-> TRUE, count |-> step.count, lookups |-> i]
             ELSE ProbeLoop(dns, i + 1, step.count)

\* Lines 409-432: the checks made after the lookups, on the cleaned name.
RejectedAfterLookups(clean_name) ==
    \/ IsLikelyTakenBusinessName(clean_name)
    \/ \E i \in 1..Len(common_words) : common_words[i] = clean_name
    \/ (Len(clean_name) <= 4 /\ IsAlpha(clean_name))
    \/ 10 * Cardinality(Range(clean_name)) < 6 * Len(clean_name)

\* Mutant of CheckDomainAvailability: the checks on the cleaned name are
\* made before the lookups.
CheckDomainAvailability_LexicalFirst(domain_name, dns, sock) ==
    IF domain_name = <<>> \/ Strip(domain_name) = <<>>
    THEN [ret |-> FALSE, lookups |-> 0, sock |-> sock]
    ELSE LET clean_name == CleanName(domain_name)
         IN  IF Len(clean_name) < 2 \/ ~IsAlnum(clean_name)
                \/ RejectedAfterLookups(clean_name)
             THEN [ret |-> FALSE, lookups |-> 0, sock |-> sock]
             ELSE LET probe == ProbeLoop(dns, 1, 0)
                  IN  IF probe.returned \/ probe.count >= 2
                      THEN [ret |-> FALSE, lookups |-> probe.lookups, sock |-> "3"]
                      ELSE [ret |-> TRUE, lookups |-> probe.lookups, sock |-> "None"]

\* check_domain_availability(domain_name), the resolver answering as dns and
\* the default socket timeout being sock ("None" or "3") at the call:
\* the value returned, the number of lookups made and the default socket
\* timeout left behind.  The timeout is set before each lookup (line 394)
\* and reset only on the path that returns True (line 440); the handler
\* of line 443 is not reached, every lookup error being caught inside the loop.
CheckDomainAvailability(domain_name, dns, sock) ==
    IF domain_name = <<>> \/ Strip(domain_name) = <<>>
    THEN [ret |-> FALSE, lookups |-> 0, sock |-> sock]
    ELSE LET clean_name == CleanName(domain_name)
         IN  IF Len(clean_name) < 2 \/ ~IsAlnum(clean_name)
             THEN [ret |-> FALSE, lookups |-> 0, sock |-> sock]
             ELSE LET probe == ProbeLoop(dns, 1, 0)
                  IN  IF \/ probe.returned
                         \/ RejectedAfterLookups(clean_name)
                         \/ probe.count >= 2
                      THEN [ret |-> FALSE, lookups |-> probe.lookups, sock |-> "3"]
                      ELSE [ret |-> TRUE, lookups |-> probe.lookups, sock |-> "None"]

(***************************************************************************)
(* The parsing step of generate_names_with_domain_validation               *)
(***************************************************************************)
\* The bullet character U+2022, which TLA+ strings cannot hold.
Bullet == "U+2022"

\* Mutant of strip_chars: ')' and ':' stripped as well.
strip_chars_WithParen == Digits \cup {".", " ", "-", Bullet, "*", ")", ":"}

\* The argument of lstrip on line 484: the digits, '.', ' ', '-', the bullet
\* U+2022 and '*'.
strip_chars == Digits \cup {".", " ", "-", Bullet, "*"}

\* Line 484: cleaned_name = name.strip().lstrip(strip_chars)
CleanedName(name) == LStrip(Strip(name), strip_chars)

\* Lines 482-486: one cleaned name per line of the text, in the lines'
\* order, the cleaned names of length 0 and 1 left out.
ParseNames(brand_names) ==
    LET lines   == SplitLines(brand_names)
        cleaned == [i \in 1..Len(lines) |-> CleanedName(lines[i])]
    IN  SelectSeq(cleaned, LAMBDA c : c # <<>> /\ Len(c) > 1)

(***************************************************************************)
(* generate_brand_names and gemini_text_response                           *)
(***************************************************************************)
\* The texts the generator answers with in the model.
TextSuccess == <<"Z", "e", "p", "h", "y", "r", "a", "\n", "Q", "u", "i", "l", "l", "a", "r", "a", "\n", "N", "e", "x", "a", "r", "a">>
TextBlocked == <<"T", "e", "c", "h", "P", "r", "o", "\n", "S", "m", "a", "r", "t", "H", "u", "b">>
TextCase    == <<"Z", "e", "p", "h", "y", "r", "a", "\n", "Z", "E", "P", "H", "Y", "R", "A", "\n", "Z", "e", "p", "h", "y", "r", "a">>
TextNoNames == <<"1", ".", "\n", "-">>
TextQuota   == <<"Q", "u", "o", "t", "a", " ", "e", "x", "c", "e", "e", "d", "e", "d">>

Texts == {TextSuccess, TextBlocked, TextCase, TextNoNames}

\* What one call of gemini_text_response meets: no API key, a response with
\* code 429, a response with a text (possibly empty), an exception of
\* generate_content that names a quota or a rate limit, any other exception
\* of generate_content, and an exception outside the try blocks, which the
\* retry decorator re-raises in the end.
GeminiOutcomes ==
    {[kind |-> "response", text |-> t] : t \in Texts \cup {<<>>, TextQuota}}
        \cup {[kind |-> k, text |-> <<>>] :
                  k \in {"no_api_key", "response_429", "error_quota", "error", "raise"}}

\* gemini_text_response: the value returned ('RATE_LIMIT', None or the
\* text), or the exception, and the message shown.
GeminiTextResponse(outcome) ==
    CASE outcome.kind = "no_api_key" ->
             [kind |-> "None", text |-> <<>>, events |-> << "api_key_missing" >>]
      [] outcome.kind = "response_429" ->
             [kind |-> "RATE_LIMIT", text |-> <<>>, events |-> <<>>]
      [] outcome.kind = "response" ->
             IF \/ Contains(Lower(outcome.text), <<"r", "a", "t", "e", " ", "l", "i", "m", "i", "t">>)
                \/ Contains(Lower(outcome.text), <<"q", "u", "o", "t", "a">>)
             THEN [kind |-> "RATE_LIMIT", text |-> <<>>, events |-> <<>>]
             ELSE [kind |-> "text", text |-> outcome.text, events |-> <<>>]
      [] outcome.kind = "error_quota" ->
             [kind |-> "RATE_LIMIT", text |-> <<>>, events |-> <<>>]
      [] outcome.kind = "error" ->
             [kind |-> "None", text |-> <<>>, events |-> << "gemini_failed" >>]
      [] OTHER ->
             [kind |-> "raise", text |-> <<>>, events |-> <<>>]

\* Mutant of GenerateBrandNames: 'RATE_LIMIT' becomes None without the warning.
GenerateBrandNames_NoWarning(outcome) ==
    LET brand_names == GeminiTextResponse(outcome)
    IN  IF brand_names.kind = "RATE_LIMIT"
        THEN [kind |-> "rate_limit", text |-> <<>>, events |-> brand_names.events]
        ELSE brand_names

\* generate_brand_names (lines 855-859): 'RATE_LIMIT' becomes None after a
\* warning; everything else is passed on.  "rate_limit" and "None" both
\* stand for the value None: the kind records why.
GenerateBrandNames(outcome) ==
    LET brand_names == GeminiTextResponse(outcome)
    IN  IF brand_names.kind = "RATE_LIMIT"
        THEN [kind |-> "rate_limit", text |-> <<>>,
              events |-> brand_names.events \o << "rate_limit_warning" >>]
        ELSE brand_names

\* not brand_names (line 477): None or the empty string.
IsFalsy(brand_names) ==
    brand_names.kind \in {"None", "rate_limit"} \/ brand_names.text = <<>>

(***************************************************************************)
(* State                                                                   *)
(***************************************************************************)
VARIABLES
    pc,                \* where generate_names_with_domain_validation stands
    num_names,         \* its argument, the target count (target_names)
    unique_names,      \* the accepted names, in the order they were accepted
    attempt,           \* iterations of the while loop begun
    total_checked,     \* candidates evaluated in this session
    total_rejected,    \* candidates rejected in this session
    names_list,        \* the candidates parsed from the last text
    verdicts,          \* what happened to names_list[1..Len(verdicts)] in this round
    genLog,            \* the result of each generate_brand_names call of the session
    events,            \* the session-level messages shown, in order
    ret,               \* the value the session returned
    validation_stats,  \* st.session_state.validation_stats
    sessions,          \* sessions begun
    sock,              \* the process-wide default socket timeout
    tokPc, tokText, tokNames, tokAgain,   \* the parsing step applied to a text
    cdaPc, cdaName, cdaDns, cdaRes,       \* check_domain_availability applied to a name
    cdaClean                              \* the cleaned name it computed

sessionVars ==
    << pc, num_names, unique_names, attempt, total_checked, total_rejected,
       names_list, verdicts, genLog, events, ret, validation_stats, sessions, sock >>

tokVars == << tokPc, tokText, tokNames, tokAgain >>

cdaVars == << cdaPc, cdaName, cdaDns, cdaRes, cdaClean >>

vars == << sessionVars, tokVars, cdaVars >>

(***************************************************************************)
(* Bounds and constants                                                    *)
(***************************************************************************)
\* Line 451.
max_attempts == 3

\* The largest target count a session is started with (the slider of line
\* 690 allows 1 to 10).
MaxTarget == 3

\* The answers of the resolver the sessions meet: nothing resolves, .com
\* resolves, the first lookup times out, only .io resolves, .io and .co
\* resolve.
AllFree == [i \in 1..Len(extensions) |-> "gaierror"]

SessionDns ==
    { AllFree,
      [AllFree EXCEPT ![1] = "resolved"],
      [AllFree EXCEPT ![1] = "timeout"],
      [AllFree EXCEPT ![4] = "resolved"],
      [AllFree EXCEPT ![4] = "resolved", ![5] = "resolved"] }

NoneValue == [is_none |-> TRUE, names |-> <<>>]

NoStats ==
    [present |-> FALSE, total_checked |-> 0, total_rejected |-> 0, total_approved |-> 0]

IdleRes == [ret |-> FALSE, lookups |-> 0, sock |-> "None"]

(***************************************************************************)
(* generate_names_with_domain_validation                                   *)
(***************************************************************************)
\* Mutants of LoopCondition: the budget off by one, either way.
LoopCondition_OneMore(names, target, att) == Len(names) < target /\ att <= max_attempts

LoopCondition_OneLess(names, target, att) == Len(names) < target /\ att + 1 < max_attempts

\* Line 465: the condition of the while loop.
LoopCondition(names, target, att) == Len(names) < target /\ att < max_attempts

\* How a generation result is logged: '' apart from a text.
GenKind(brand_names) ==
    IF brand_names.kind = "text" /\ brand_names.text = <<>> THEN "empty"
    ELSE brand_names.kind

\* Mutant of AfterGenerate: a falsy result is treated like an exception.
AfterGenerate_FalsyContinues(brand_names) ==
    IF brand_names.kind = "raise" \/ IsFalsy(brand_names)
    THEN [next |-> "continue", names_list |-> <<>>, events |-> << "attempt_failed" >>]
    ELSE LET parsed == ParseNames(brand_names.text)
         IN  IF parsed = <<>>
             THEN [next |-> "continue", names_list |-> parsed, events |-> << "no_valid_names" >>]
             ELSE [next |-> "validate", names_list |-> parsed, events |-> <<>>]

\* Mutant of AfterGenerate: a text with no usable line ends the session
\* like a falsy result.
AfterGenerate_NoNamesReturns(brand_names) ==
    IF brand_names.kind = "raise"
    THEN [next |-> "continue", names_list |-> <<>>, events |-> << "attempt_failed" >>]
    ELSE IF IsFalsy(brand_names)
    THEN [next |-> "return_none", names_list |-> <<>>, events |-> << "ai_generation_failed" >>]
    ELSE LET parsed == ParseNames(brand_names.text)
         IN  IF parsed = <<>>
             THEN [next |-> "return_none", names_list |-> parsed, events |-> << "no_valid_names" >>]
             ELSE [next |-> "validate", names_list |-> parsed, events |-> <<>>]

\* Lines 469-490 and 529-531: what the iteration does with the result of
\* generate_brand_names before the validation loop: an exception is caught
\* and the loop continues, a falsy result makes the function return None,
\* a text with no usable line makes the loop continue, any other text is
\* validated.
AfterGenerate(brand_names) ==
    IF brand_names.kind = "raise"
    THEN [next |-> "continue", names_list |-> <<>>, events |-> << "attempt_failed" >>]
    ELSE IF IsFalsy(brand_names)
    THEN [next |-> "return_none", names_list |-> <<>>, events |-> << "ai_generation_failed" >>]
    ELSE LET parsed == ParseNames(brand_names.text)
         IN  IF parsed = <<>>
             THEN [next |-> "continue", names_list |-> parsed, events |-> << "no_valid_names" >>]
             ELSE [next |-> "validate", names_list |-> parsed, events |-> <<>>]

\* Mutant of IsNewName: the test against the accepted names left out.
IsNewName_NoMemory(name, names) == name # <<>>

\* Line 494: the candidates the validation loop evaluates.
IsNewName(name, names) == name # <<>> /\ \A i \in 1..Len(names) : names[i] # name

\* Mutant of ValidateName: no break once the target is reached.
ValidateName_NoBreak(name, names, target, checked, rejected, dns, sk) ==
    IF ~IsNewName(name, names)
    THEN [unique_names |-> names, total_checked |-> checked, total_rejected |-> rejected,
          verdict |-> "skipped", sock |-> sk, break |-> FALSE]
    ELSE LET res == CheckDomainAvailability(name, dns, sk)
         IN  IF res.ret
             THEN [unique_names |-> Append(names, name), total_checked |-> checked + 1,
                   total_rejected |-> rejected, verdict |-> "available", sock |-> res.sock,
                   break |-> FALSE]
             ELSE [unique_names |-> names, total_checked |-> checked + 1,
                   total_rejected |-> rejected + 1, verdict |-> "taken", sock |-> res.sock,
                   break |-> FALSE]

\* Mutant of ValidateName: a name the heuristic rejected is accepted all
\* the same.
ValidateName_AcceptsTaken(name, names, target, checked, rejected, dns, sk) ==
    IF ~IsNewName(name, names)
    THEN [unique_names |-> names, total_checked |-> checked, total_rejected |-> rejected,
          verdict |-> "skipped", sock |-> sk, break |-> FALSE]
    ELSE LET res == CheckDomainAvailability(name, dns, sk)
         IN  IF res.ret
             THEN [unique_names |-> Append(names, name), total_checked |-> checked + 1,
                   total_rejected |-> rejected, verdict |-> "available", sock |-> res.sock,
                   break |-> Len(names) + 1 >= target]
             ELSE [unique_names |-> Append(names, name), total_checked |-> checked + 1,
                   total_rejected |-> rejected + 1, verdict |-> "taken", sock |-> res.sock,
                   break |-> FALSE]

\* Mutant of ValidateName: the break comes one accepted name too late.
ValidateName_BreakLate(name, names, target, checked, rejected, dns, sk) ==
    IF ~IsNewName(name, names)
    THEN [unique_names |-> names, total_checked |-> checked, total_rejected |-> rejected,
          verdict |-> "skipped", sock |-> sk, break |-> FALSE]
    ELSE LET res == CheckDomainAvailability(name, dns, sk)
         IN  IF res.ret
             THEN [unique_names |-> Append(names, name), total_checked |-> checked + 1,
                   total_rejected |-> rejected, verdict |-> "available", sock |-> res.sock,
                   break |-> Len(names) + 1 > target]
             ELSE [unique_names |-> names, total_checked |-> checked + 1,
                   total_rejected |-> rejected + 1, verdict |-> "taken", sock |-> res.sock,
                   break |-> FALSE]

\* Lines 494-512: one iteration of the validation loop.
ValidateName(name, names, target, checked, rejected, dns, sk) ==
    IF ~IsNewName(name, names)
    THEN [unique_names |-> names, total_checked |-> checked, total_rejected |-> rejected,
          verdict |-> "skipped", sock |-> sk, break |-> FALSE]
    ELSE LET res == CheckDomainAvailability(name, dns, sk)
         IN  IF res.ret
             THEN [unique_names |-> Append(names, name), total_checked |-> checked + 1,
                   total_rejected |-> rejected, verdict |-> "available", sock |-> res.sock,
                   break |-> Len(names) + 1 >= target]
             ELSE [unique_names |-> names, total_checked |-> checked + 1,
                   total_rejected |-> rejected + 1, verdict |-> "taken", sock |-> res.sock,
                   break |-> FALSE]

\* Mutants of FinalResults: the accepted names are not added to
\* total_approved; the counts are merged even when no name was accepted.
FinalResults_ApprovedNotAdded(names, target, checked, rejected, stats) ==
    IF Len(names) = 0
    THEN [ret |-> NoneValue, validation_stats |-> stats, events |-> << "no_unique_names" >>]
    ELSE [ret |-> [is_none |-> FALSE, names |-> names],
          validation_stats |->
              [present |-> TRUE,
               total_checked  |-> stats.total_checked + checked,
               total_rejected |-> stats.total_rejected + rejected,
               total_approved |-> stats.total_approved],
          events |-> IF Len(names) < target THEN << "partial_success" >> ELSE << "success" >>]

FinalResults_AlwaysMerges(names, target, checked, rejected, stats) ==
    [ret |-> IF Len(names) = 0 THEN NoneValue ELSE [is_none |-> FALSE, names |-> names],
     validation_stats |->
         [present |-> TRUE,
          total_checked  |-> stats.total_checked + checked,
          total_rejected |-> stats.total_rejected + rejected,
          total_approved |-> stats.total_approved + Len(names)],
     events |-> IF Len(names) = 0 THEN << "no_unique_names" >>
                ELSE IF Len(names) < target THEN << "partial_success" >>
                ELSE << "success" >>]

\* Lines 536-569: the classification of the result, the update of the
\* cumulative counters and the value returned.
FinalResults(names, target, checked, rejected, stats) ==
    IF Len(names) = 0
    THEN [ret |-> NoneValue, validation_stats |-> stats, events |-> << "no_unique_names" >>]
    ELSE [ret |-> [is_none |-> FALSE, names |-> names],
          validation_stats |->
              [present |-> TRUE,
               total_checked  |-> stats.total_checked + checked,
               total_rejected |-> stats.total_rejected + rejected,
               total_approved |-> stats.total_approved + Len(names)],
          events |-> IF Len(names) < target THEN << "partial_success" >> ELSE << "success" >>]

\* The function returns through the final block.
ReturnFinal(names, checked, rejected, shown) ==
    LET final == FinalResults(names, num_names, checked, rejected, validation_stats)
    IN  /\ pc' = "done"
        /\ ret' = final.ret
        /\ validation_stats' = final.validation_stats
        /\ events' = shown \o final.events

\* Lines 451-463: a session begins.
StartSession ==
    /\ pc = "idle"
    /\ \E n \in 1..MaxTarget : num_names' = n
    /\ pc' = "while"
    /\ sessions' = sessions + 1
    /\ unique_names' = <<>>
    /\ attempt' = 0
    /\ total_checked' = 0
    /\ total_rejected' = 0
    /\ names_list' = <<>>
    /\ verdicts' = <<>>
    /\ genLog' = <<>>
    /\ events' = <<>>
    /\ ret' = NoneValue
    /\ UNCHANGED << validation_stats, sock, tokVars, cdaVars >>

\* Lines 465-490, 529-531: the loop goes round once more and calls the
\* generator, which behaves in one of the ways of outcomes.
GenerateFrom(outcomes) ==
    /\ pc = "while"
    /\ LoopCondition(unique_names, num_names, attempt)
    /\ attempt' = attempt + 1
    /\ \E outcome \in outcomes :
       \E brand_names \in {GenerateBrandNames(outcome)} :
       \E after \in {AfterGenerate(brand_names)} :
           /\ genLog' = Append(genLog, GenKind(brand_names))
           /\ events' = events \o brand_names.events \o after.events
           /\ names_list' = IF after.next = "validate" \/ after.events = << "no_valid_names" >>
                            THEN after.names_list ELSE names_list
           /\ pc' = CASE after.next = "continue"    -> "while"
                      [] after.next = "return_none" -> "done"
                      [] OTHER                      -> "validate"
           /\ ret' = NoneValue
    /\ verdicts' = <<>>
    /\ UNCHANGED << num_names, unique_names, total_checked, total_rejected,
                    validation_stats, sessions, sock, tokVars, cdaVars >>

Generate == GenerateFrom(GeminiOutcomes)

\* Lines 493-527: the next candidate of names_list is handled, the resolver
\* answering in one of the ways of answers; after the last one, or on the
\* break of line 505, the round ends, and the loop is left through line 523
\* once the target is reached.
ValidateWith(answers) ==
    /\ pc = "validate"
    /\ \E dns \in answers :
       \E step \in {ValidateName(names_list[Len(verdicts) + 1], unique_names, num_names,
                                 total_checked, total_rejected, dns, sock)} :
       \E last \in {step.break \/ Len(verdicts) + 1 = Len(names_list)} :
           /\ unique_names' = step.unique_names
           /\ total_checked' = step.total_checked
           /\ total_rejected' = step.total_rejected
           /\ verdicts' = Append(verdicts, step.verdict)
           /\ sock' = step.sock
           /\ IF last /\ Len(step.unique_names) >= num_names
              THEN ReturnFinal(step.unique_names, step.total_checked,
                               step.total_rejected, events)
              ELSE /\ pc' = IF last THEN "while" ELSE "validate"
                   /\ UNCHANGED << ret, validation_stats, events >>
    /\ UNCHANGED << num_names, attempt, names_list, genLog, sessions, tokVars, cdaVars >>

Validate == ValidateWith(SessionDns)

\* Line 465 false: the loop ends and the final block runs.
ExitLoop ==
    /\ pc = "while"
    /\ ~LoopCondition(unique_names, num_names, attempt)
    /\ ReturnFinal(unique_names, total_checked, total_rejected, events)
    /\ UNCHANGED << num_names, unique_names, attempt, total_checked, total_rejected,
                    names_list, verdicts, genLog, sessions, sock, tokVars, cdaVars >>

TokIdle ==
    /\ tokPc = "off" /\ tokText = <<>> /\ tokNames = <<>> /\ tokAgain = <<>>

CdaIdle ==
    /\ cdaPc = "off" /\ cdaName = <<>> /\ cdaDns = AllFree /\ cdaRes = IdleRes
    /\ cdaClean = <<>>

SessionIdle ==
    /\ num_names = 1
    /\ unique_names = <<>>
    /\ attempt = 0
    /\ total_checked = 0
    /\ total_rejected = 0
    /\ names_list = <<>>
    /\ verdicts = <<>>
    /\ genLog = <<>>
    /\ events = <<>>
    /\ ret = NoneValue
    /\ validation_stats = NoStats
    /\ sessions = 0
    /\ sock = "None"

Init == pc = "idle" /\ SessionIdle /\ TokIdle /\ CdaIdle

Next ==
    \/ StartSession
    \/ Generate
    \/ Validate
    \/ ExitLoop

Spec == Init /\ [][Next]_vars

(***************************************************************************)
(* Several sessions in one browser session: validation_stats lives on from *)
(* one call of generate_names_with_domain_validation to the next, and      *)
(* between two calls the performance monitor may be opened.                *)
(***************************************************************************)
\* The largest number of sessions in a behaviour.
MaxSessions == 2

\* The generator gives three free names, two blocked names, an empty text,
\* or raises.
FewOutcomes ==
    {[kind |-> "response", text |-> t] : t \in {TextSuccess, TextBlocked, <<>>}}
        \cup {[kind |-> "raise", text |-> <<>>]}

\* No extension resolves, or .com does.
FewDns == { AllFree, [AllFree EXCEPT ![1] = "resolved"] }

\* Lines 451-463: the button is pressed again after a session has ended.
NextSession ==
    /\ pc = "done"
    /\ sessions < MaxSessions
    /\ \E n \in 1..MaxTarget : num_names' = n
    /\ pc' = "while"
    /\ sessions' = sessions + 1
    /\ unique_names' = <<>>
    /\ attempt' = 0
    /\ total_checked' = 0
    /\ total_rejected' = 0
    /\ names_list' = <<>>
    /\ verdicts' = <<>>
    /\ genLog' = <<>>
    /\ events' = <<>>
    /\ ret' = NoneValue
    /\ UNCHANGED << validation_stats, sock, tokVars, cdaVars >>

\* Lines 205-211: monitor_validation_performance, run between two sessions,
\* creates the cumulative counters at zero if they do not exist yet; the
\* rest of it displays them.
MonitorValidationPerformance ==
    /\ pc \in {"idle", "done"}
    /\ ~validation_stats.present
    /\ validation_stats' = [NoStats EXCEPT !.present = TRUE]
    /\ UNCHANGED << pc, num_names, unique_names, attempt, total_checked, total_rejected,
                    names_list, verdicts, genLog, events, ret, sessions, sock,
                    tokVars, cdaVars >>

GenerateFew == GenerateFrom(FewOutcomes)

ValidateFew == ValidateWith(FewDns)

NextSessions ==
    \/ StartSession
    \/ NextSession
    \/ MonitorValidationPerformance
    \/ GenerateFew
    \/ ValidateFew
    \/ ExitLoop

SpecSessions == Init /\ [][NextSessions]_vars

(***************************************************************************)
(* The parsing step alone: a text is drawn, parsed (lines 482-486), and    *)
(* the parsed names, joined by newlines, are parsed again.                 *)
(***************************************************************************)
\* The longest text drawn from TokAlphabet.
MaxTextLen == 4

TokAlphabet == {"1", ".", ")", ":", "-", "*", Bullet, " ", "\t", "\n", "N", "a"}

ExampleEnumerated == <<"1", ")", " ", "N", "o", "v", "a", "l", "y", "\n", "2", ".", " ", "B", "l", "u", "e", "m", "i", "n", "t", "\n", "-", " ", "N", "e", "x", "o", "r", "a">>
ExampleDotted     == <<"1", ".", " ", "N", "o", "v", "a", "l", "y", "\n", "2", ".", " ", "B", "l", "u", "e", "m", "i", "n", "t", "\n", "-", " ", "N", "e", "x", "o", "r", "a">>
ExampleCase       == <<"N", "o", "v", "a", "\n", "N", "O", "V", "A", "\n", "n", "o", "v", "a">>

RawTexts ==
    UNION {[1..n -> TokAlphabet] : n \in 0..MaxTextLen}
        \cup {ExampleEnumerated, ExampleDotted, ExampleCase}

InitTok ==
    /\ pc = "off" /\ SessionIdle /\ CdaIdle
    /\ tokPc = "input"
    /\ tokText \in RawTexts
    /\ tokNames = <<>>
    /\ tokAgain = <<>>

Tokenize ==
    /\ tokPc = "input"
    /\ tokNames' = ParseNames(tokText)
    /\ tokPc' = "parsed"
    /\ UNCHANGED << tokText, tokAgain, sessionVars, cdaVars >>

Retokenize ==
    /\ tokPc = "parsed"
    /\ tokAgain' = ParseNames(JoinLines(tokNames))
    /\ tokPc' = "reparsed"
    /\ UNCHANGED << tokText, tokNames, sessionVars, cdaVars >>

NextTok == Tokenize \/ Retokenize

SpecTok == InitTok /\ [][NextTok]_vars

(***************************************************************************)
(* check_domain_availability alone: a name is drawn and checked against    *)
(* every answer of the resolver.                                           *)
(***************************************************************************)
AvailNames ==
    { <<"Z", "e", "p", "h", "y", "r", "a">>,
      <<"Z", "e", "p", "h", "y", "r", "a", " ", "T", "e", "c", "h">>,
      <<"N", "e", "w", "T", "e", "c", "h", " ", "S", "o", "l", "u", "t", "i", "o", "n", "s">>,
      <<"C", "l", "o", "u", "d", "-", "N", "i", "n", "e">>,
      <<")", " ", "N", "o", "v", "a", "l", "y">>,
      <<"N", "o", "v", "a">>,
      <<"T", "e", "c", "h", "P", "r", "o">>,
      <<"F", "u", "t", "u", "r", "e", " ", "L", "a", "b", "s">> }

InitAvail ==
    /\ pc = "off" /\ SessionIdle /\ TokIdle
    /\ cdaPc = "input"
    /\ cdaName \in AvailNames
    /\ cdaDns = AllFree
    /\ cdaRes = IdleRes
    /\ cdaClean = <<>>

CheckName ==
    /\ cdaPc = "input"
    /\ \E dns \in DnsVectors :
       \E res \in {CheckDomainAvailability(cdaName, dns, sock)} :
           /\ cdaDns' = dns
           /\ cdaRes' = res
           /\ sock' = res.sock
    /\ cdaClean' = CleanName(cdaName)
    /\ cdaPc' = "checked"
    /\ UNCHANGED << cdaName, pc, num_names, unique_names, attempt, total_checked,
                    total_rejected, names_list, verdicts, genLog, events, ret,
                    validation_stats, sessions, tokVars >>

NextAvail == CheckName

SpecAvail == InitAvail /\ [][NextAvail]_vars

(***************************************************************************)
(* The cleaning of lines 369-376 alone: a name made of a word followed by  *)
(* suffix words is drawn and cleaned.                                      *)
(***************************************************************************)
\* The largest number of suffix words that follow the first word.
MaxSuffixWords == 2

FirstWords ==
    { <<"Z", "e", "p", "h", "y", "r", "a">>,
      <<"N", "o", "v", "a">>,
      <<"E", "c", "o">> }

\* What can follow the first word: up to n words of business_suffixes, each
\* after a space.
RECURSIVE SuffixTails(_)
SuffixTails(n) ==
    IF n = 0 THEN {<<>>}
    ELSE LET shorter == SuffixTails(n - 1)
         IN  shorter \cup
             { t \o <<" ">> \o business_suffixes[i] :
                   t \in shorter, i \in 1..Len(business_suffixes) }

SuffixedNames == { w \o t : w \in FirstWords, t \in SuffixTails(MaxSuffixWords) }

InitClean ==
    /\ pc = "off" /\ SessionIdle /\ TokIdle
    /\ cdaPc = "raw"
    /\ cdaName \in SuffixedNames
    /\ cdaDns = AllFree
    /\ cdaRes = IdleRes
    /\ cdaClean = <<>>

Normalize ==
    /\ cdaPc = "raw"
    /\ cdaClean' = CleanName(cdaName)
    /\ cdaPc' = "cleaned"
    /\ UNCHANGED << cdaName, cdaDns, cdaRes, sessionVars, tokVars >>

NextClean == Normalize

SpecClean == InitClean /\ [][NextClean]_vars

(***************************************************************************)
(* Properties                                                              *)
(***************************************************************************)
Last(seq) == seq[Len(seq)]

NoneResults == {"None", "empty"}

\* C1: a session makes at most max_attempts calls of generate_brand_names,
\* whatever the calls return or raise and whatever the verdicts are.
C1_GenerationCallsBounded == Len(genLog) <= max_attempts /\ Len(genLog) = attempt

C1_Witness == pc = "done" /\ Len(genLog) = max_attempts /\ "raise" \in Range(genLog)

C3_RateLimitShortCircuit ==
    /\ (genLog # <<>> /\ genLog[1] = "rate_limit")
           => (pc = "done" /\ Len(genLog) = 1 /\ attempt = 1 /\ attempt < max_attempts
                  /\ ret = NoneValue)
    /\ ("rate_limit_warning" \in Range(events)) <=> ("rate_limit" \in Range(genLog))

C3_Witness ==
    /\ pc = "done" /\ genLog = << "rate_limit" >>
    /\ events = << "rate_limit_warning", "ai_generation_failed" >>

\* C4: when a lookup made by check_domain_availability times out or fails
\* with an error, the function returns False.
C4_ProbeFailureNeverAvailable ==
    (cdaPc = "checked" /\ \E i \in 1..cdaRes.lookups : cdaDns[i] \in {"timeout", "error"})
        => ~cdaRes.ret

C4_Witness ==
    /\ cdaPc = "checked" /\ cdaName = <<"Z", "e", "p", "h", "y", "r", "a">>
    /\ cdaDns = [AllFree EXCEPT ![2] = "timeout"]
    /\ cdaRes.lookups = 2 /\ ~cdaRes.ret

\* The generic terms the claim C5 lists.
ClaimTerms ==
    << <<"t", "e", "c", "h">>,
       <<"d", "i", "g", "i", "t", "a", "l">>,
       <<"s", "m", "a", "r", "t">>,
       <<"s", "o", "l", "u", "t", "i", "o", "n", "s">>,
       <<"l", "a", "b", "s">>,
       <<"g", "l", "o", "b", "a", "l">>,
       <<"f", "u", "t", "u", "r", "e">>,
       <<"a", "i">>,
       <<"c", "l", "o", "u", "d">> >>

\* C5, as claimed: a name that contains, ignoring case, a listed generic
\* term is never judged available.
C5_TermInNameNeverAvailable ==
    (cdaPc = "checked" /\ AnyContained(Lower(cdaName), ClaimTerms)) => ~cdaRes.ret

\* C5, amended: a name whose cleaned form (lowercased, separators removed,
\* business suffixes stripped from its end) contains a listed generic term
\* is never judged available, whatever the lookups answer.
C5_TermInCleanNameNeverAvailable ==
    (cdaPc = "checked" /\ AnyContained(CleanName(cdaName), ClaimTerms)) => ~cdaRes.ret

C5_Witness ==
    /\ cdaPc = "checked" /\ cdaName = <<"C", "l", "o", "u", "d", "-", "N", "i", "n", "e">>
    /\ cdaDns = AllFree /\ cdaRes.lookups = Len(extensions) /\ ~cdaRes.ret

\* The enumeration characters of the claim C6: digits, '.', ')', '-', ':',
\* bullets and whitespace.
ClaimEnumChars == Digits \cup {".", ")", "-", ":", Bullet, "*"} \cup Whitespace

\* The characters the parsing step strips from the start of a trimmed line.
CodeEnumChars == Digits \cup {".", " ", "-", Bullet, "*"}

\* The line with its longest leading run of characters of chars removed,
\* stated without recursion.
WithoutLeadingRun(line, chars) ==
    LET k == CHOOSE n \in 0..Len(line) :
                 /\ \A j \in 1..n : line[j] \in chars
                 /\ (n < Len(line) => line[n + 1] \notin chars)
    IN  SubSeq(line, k + 1, Len(line))

\* The candidates of a text when each line loses its leading run of chars,
\* the lines being trimmed of whitespace first when trim holds, and a
\* candidate being kept when longer than one character.
CandidatesBy(text, chars, trim) ==
    LET lines == SplitLines(text)
        cand  == [i \in 1..Len(lines) |->
                     IF trim THEN WithoutLeadingRun(Strip(lines[i]), chars)
                     ELSE Strip(WithoutLeadingRun(lines[i], chars))]
    IN  SelectSeq(cand, LAMBDA c : Len(c) > 1)

\* C6, as claimed: each candidate is its line with the whole leading run of
\* enumeration characters (')' and ':' and whitespace among them) removed.
C6_LeadingEnumerationRemoved ==
    tokPc # "input" => tokNames = CandidatesBy(tokText, ClaimEnumChars, FALSE)

\* C6, amended: each candidate is its line, trimmed of surrounding
\* whitespace, with the longest leading run of digits, '.', ' ', '-',
\* bullet and '*' removed; ')' and ':' end the run and stay.
C6_LeadingRunOfStripCharsRemoved ==
    tokPc # "input" => tokNames = CandidatesBy(tokText, CodeEnumChars, TRUE)

C6_Witness ==
    /\ tokPc = "parsed" /\ tokText = ExampleEnumerated
    /\ tokNames = << <<")", " ", "N", "o", "v", "a", "l", "y">>, <<"B", "l", "u", "e", "m", "i", "n", "t">>, <<"N", "e", "x", "o", "r", "a">> >>

\* No two entries of the sequence are equal ignoring case.
NoCaseDuplicates(seq) ==
    \A i, j \in 1..Len(seq) : i # j => Lower(seq[i]) # Lower(seq[j])

\* C7, as claimed: the candidates parsed from a text, and so the accepted
\* names, never hold two entries that are equal ignoring case.
C7_NoCaseInsensitiveDuplicates == NoCaseDuplicates(names_list) /\ NoCaseDuplicates(unique_names)

\* C7, amended: the accepted names never hold two identical entries, a
\* candidate is passed over exactly when it is identical to a name already
\* accepted, and names that differ only by case are separate candidates.
C7_NoExactDuplicatesAccepted ==
    /\ \A i, j \in 1..Len(unique_names) : i # j => unique_names[i] # unique_names[j]
    /\ \A i \in 1..Len(verdicts) :
           verdicts[i] = "skipped" =>
               \E k \in 1..Len(unique_names) : unique_names[k] = names_list[i]

C7_Witness ==
    /\ unique_names = << <<"Z", "e", "p", "h", "y", "r", "a">>, <<"Z", "E", "P", "H", "Y", "R", "A">> >>
    /\ verdicts = << "available", "available", "skipped" >>

\* C8: parsing the parsed names, joined by newlines, gives the same set of
\* names.
C8_TokenizeIdempotent == tokPc = "reparsed" => Range(tokAgain) = Range(tokNames)

\* The candidates accepted in the current round, in the order of names_list.
AcceptedInRound ==
    LET idx == SelectSeq([i \in 1..Len(verdicts) |-> i],
                         LAMBDA i : verdicts[i] = "available")
    IN  [k \in 1..Len(idx) |-> names_list[idx[k]]]

\* C9: when the first text yields at least num_names distinct candidates
\* judged available, the session has ended after one generation call and
\* returned exactly num_names names: those candidates, in the order of the
\* text.
C9_FirstTextSuffices ==
    (attempt = 1 /\ Cardinality(Range(AcceptedInRound)) >= num_names)
        => /\ pc = "done"
           /\ Len(genLog) = 1
           /\ ~ret.is_none
           /\ Len(ret.names) = num_names
           /\ ret.names = AcceptedInRound

C9_Witness ==
    /\ pc = "done" /\ num_names = 3 /\ genLog = << "text" >>
    /\ names_list = ParseNames(TextSuccess)
    /\ ret.names = << <<"Z", "e", "p", "h", "y", "r", "a">>, <<"Q", "u", "i", "l", "l", "a", "r", "a">>, <<"N", "e", "x", "a", "r", "a">> >>

\* C10: when every generation call returned a non-empty text and no
\* candidate was accepted, the session ends after exactly max_attempts
\* calls, with no name.
C10_AllRejectedUsesWholeBudget ==
    (pc = "done" /\ unique_names = <<>> /\ \A i \in 1..Len(genLog) : genLog[i] = "text")
        => (Len(genLog) = max_attempts /\ ret = NoneValue)

C10_Witness ==
    /\ pc = "done" /\ genLog = << "text", "text", "text" >>
    /\ names_list = ParseNames(TextBlocked)
    /\ total_rejected = 2 * max_attempts /\ ret = NoneValue

\* Lines 536-550 and 729-793: what the caller is handed at the end of the
\* session.  A returned list is shown as the result, with the success or the
\* partial-success message of the final block; None makes the caller show
\* the failure message.
Outcome ==
    IF ret.is_none THEN "failure"
    ELSE IF Last(events) = "success" THEN "full_success"
    ELSE "partial_success"

\* C11: at the end of a session the outcome follows from the number of
\* accepted names alone: full success exactly when it equals the target,
\* partial success exactly when it lies strictly between zero and the
\* target, failure exactly when it is zero.
C11_OutcomeByAcceptedCount ==
    pc = "done" =>
        /\ Outcome = "full_success" <=> Len(unique_names) = num_names
        /\ Outcome = "partial_success" <=>
               (0 < Len(unique_names) /\ Len(unique_names) < num_names)
        /\ Outcome = "failure" <=> Len(unique_names) = 0

\* C12: the accepted sequence grows only by the candidate under evaluation
\* and only in a step in which check_domain_availability returned True for
\* it; a step that counts a rejection leaves the accepted sequence as it
\* was, and nothing else changes the accepted sequence.
C12_AcceptedOnlyWhenAvailable ==
    [][ /\ unique_names' # unique_names =>
              /\ pc = "validate"
              /\ \E dns \in SessionDns :
                     LET name == names_list[Len(verdicts) + 1]
                         res  == CheckDomainAvailability(name, dns, sock)
                     IN  /\ res.ret
                         /\ sock' = res.sock
                         /\ unique_names' = Append(unique_names, name)
              /\ total_rejected' = total_rejected
              /\ Last(verdicts') = "available"
        /\ total_rejected' > total_rejected =>
              /\ unique_names' = unique_names
              /\ Last(verdicts') = "taken"
      ]_vars

C12_Witness ==
    /\ pc = "validate"
    /\ verdicts = << "taken", "available" >>
    /\ Len(unique_names) = 1 /\ total_rejected = 1 /\ total_checked = 2

\* C13: a session never holds more accepted names than its target, and from
\* the moment it holds as many as the target it handles no further
\* candidate (counted or skipped) and makes no further generation call.
C13_TargetNeverExceeded ==
    /\ [](Len(unique_names) <= num_names)
    /\ [][ (Len(unique_names) = num_names /\ sessions' = sessions) =>
               /\ total_checked' = total_checked
               /\ total_rejected' = total_rejected
               /\ verdicts' = verdicts
               /\ genLog' = genLog
               /\ attempt' = attempt
               /\ unique_names' = unique_names ]_vars

C13_Witness ==
    /\ pc = "done" /\ num_names = 2 /\ Len(unique_names) = num_names
    /\ Len(verdicts) < Len(names_list)
    /\ attempt < max_attempts

\* The checks of lines 364-384, which come before the first lookup.
PassesShapeChecks(name) ==
    /\ name # <<>> /\ Strip(name) # <<>>
    /\ Len(CleanName(name)) >= 2
    /\ IsAlnum(CleanName(name))

\* The checks the claim lists: shape, blocklist, prefix and suffix, known
\* names and degenerate patterns.
PassesLexicalChecks(name) ==
    PassesShapeChecks(name) /\ ~RejectedAfterLookups(CleanName(name))

IsMajor(i) == \E k \in 1..Len(major_extensions) : major_extensions[k] = extensions[i]

\* The lookups that end the loop of lines 390-407 at once.
EndsProbing(dns, i) ==
    dns[i] \in {"timeout", "error"} \/ (dns[i] = "resolved" /\ IsMajor(i))

\* The number of lookups the loop makes against the answers dns.
LookupsMade(dns) ==
    IF \E i \in 1..Len(extensions) : EndsProbing(dns, i)
    THEN CHOOSE i \in 1..Len(extensions) :
             EndsProbing(dns, i) /\ \A j \in 1..(i - 1) : ~EndsProbing(dns, j)
    ELSE Len(extensions)

\* C14 as claimed: lookups are made only for a name that passed every
\* lexical check, so a name that fails one of them causes no lookup.
C14_LookupsOnlyAfterLexicalChecks ==
    cdaPc = "checked" =>
        /\ cdaRes.lookups > 0 => PassesLexicalChecks(cdaName)
        /\ ~PassesLexicalChecks(cdaName) => cdaRes.lookups = 0

\* C14, amended: only the shape checks come before the lookups.  A name
\* that fails a shape check causes no lookup; a name that passes them is
\* looked up until a lookup ends the loop, whatever the blocklist, prefix
\* and suffix, known-name and degenerate-pattern checks would say, and those
\* checks reject it only afterwards.
C14_LookupsOnlyAfterShapeChecks ==
    cdaPc = "checked" =>
        /\ ~PassesShapeChecks(cdaName) => (cdaRes.lookups = 0 /\ ~cdaRes.ret)
        /\ PassesShapeChecks(cdaName) =>
               (cdaRes.lookups = LookupsMade(cdaDns) /\ cdaRes.lookups >= 1)
        /\ (PassesShapeChecks(cdaName) /\ ~PassesLexicalChecks(cdaName)) => ~cdaRes.ret

C14_Witness ==
    /\ cdaPc = "checked"
    /\ cdaName = <<"T", "e", "c", "h", "P", "r", "o">>
    /\ cdaDns = AllFree
    /\ cdaRes.lookups = Len(extensions) /\ ~cdaRes.ret

\* Lines 369-371: the name lowercased, trimmed and freed of separators,
\* before any suffix is removed.
StrippedName(name) == Remove(Strip(Lower(name)), {" ", "-", "_", "."})

\* The suffixes of business_suffixes with a position in S that is k or
\* more, concatenated from the last position down to the first.
RECURSIVE RemovedFrom(_, _)
RemovedFrom(S, k) ==
    IF k > Len(business_suffixes) THEN <<>>
    ELSE RemovedFrom(S, k + 1) \o (IF k \in S THEN business_suffixes[k] ELSE <<>>)

\* C15 as claimed: the cleaned name is the stripped name with nothing or
\* exactly one listed suffix removed from its end.
C15_AtMostOneSuffixRemoved ==
    cdaPc = "cleaned" =>
        \/ cdaClean = StrippedName(cdaName)
        \/ \E i \in 1..Len(business_suffixes) :
               StrippedName(cdaName) = cdaClean \o business_suffixes[i]

\* C15, amended: the list is gone through once, in its order, and every
\* suffix the name ends with when its turn comes is removed.  So the cleaned
\* name is the stripped name without a run of listed suffixes, each taken at
\* most once and removed in the list's order, and a suffix is kept only if
\* the name did not end with it at its turn.
C15_EachSuffixRemovedInListOrder ==
    cdaPc = "cleaned" =>
        \E S \in SUBSET (1..Len(business_suffixes)) :
            /\ StrippedName(cdaName) = cdaClean \o RemovedFrom(S, 1)
            /\ \A k \in (1..Len(business_suffixes)) \ S :
                   ~EndsWith(cdaClean \o RemovedFrom(S, k + 1), business_suffixes[k])

C15_Witness ==
    /\ cdaPc = "cleaned"
    /\ cdaName = <<"Z", "e", "p", "h", "y", "r", "a", " ", "c", "o", " ", "i", "n", "c">>
    /\ cdaClean = <<"z", "e", "p", "h", "y", "r", "a">>

\* C16: a call of check_domain_availability leaves the process-wide default
\* socket timeout at the value it had when the call began, on every path
\* by which the call returns.
C16_SocketTimeoutRestored ==
    [][ (cdaPc = "input" /\ cdaPc' = "checked") => sock' = sock ]_vars

\* The extensions that resolve according to dns.
Resolving(dns) == {i \in 1..Len(extensions) : dns[i] = "resolved"}

\* C17: for a name that passes every lexical check and whose lookups neither
\* time out nor fail otherwise, the name is rejected if .com, .net or .org
\* resolves, rejected if two or more extensions resolve, and accepted
\* exactly when no major extension resolves and at most one other does.
C17_VerdictFromLookups ==
    ( /\ cdaPc = "checked"
      /\ PassesLexicalChecks(cdaName)
      /\ \A i \in 1..cdaRes.lookups : cdaDns[i] \notin {"timeout", "error"} ) =>
        /\ (\E i \in Resolving(cdaDns) : IsMajor(i)) => ~cdaRes.ret
        /\ Cardinality(Resolving(cdaDns)) >= 2 => ~cdaRes.ret
        /\ cdaRes.ret <=>
               /\ \A i \in Resolving(cdaDns) : ~IsMajor(i)
               /\ Cardinality({i \in Resolving(cdaDns) : ~IsMajor(i)}) <= 1

C17_Witness ==
    /\ cdaPc = "checked"
    /\ cdaName = <<"Z", "e", "p", "h", "y", "r", "a">>
    /\ cdaDns = [AllFree EXCEPT ![4] = "resolved"]
    /\ cdaRes.ret /\ cdaRes.lookups = Len(extensions)

\* C18: a generation call that returns a non-empty text with no usable line
\* uses up one attempt and nothing else: no candidate is handled, the
\* accepted sequence, the counters and the cumulative counters stay as they
\* were, the session does not end in that round, and with budget left the
\* condition of the loop still holds, so that the next attempt follows.
C18_NoCandidatesRoundOnlyCostsAnAttempt ==
    [][ ( /\ genLog' = Append(genLog, "text")
          /\ names_list' = <<>> ) =>
            /\ Last(events') = "no_valid_names"
            /\ attempt' = attempt + 1
            /\ verdicts' = <<>>
            /\ unique_names' = unique_names
            /\ total_checked' = total_checked
            /\ total_rejected' = total_rejected
            /\ validation_stats' = validation_stats
            /\ pc' = "while"
            /\ attempt' < max_attempts =>
                   (Len(unique_names') < num_names' /\ attempt' < max_attempts)
      ]_vars

C18_Witness ==
    /\ pc = "while"
    /\ genLog = << "text", "text" >>
    /\ names_list = <<>>
    /\ Last(events) = "no_valid_names"
    /\ Len(unique_names) = 1 /\ total_checked = 3 /\ attempt = 2

\* C19: at every point of a session the names counted as checked are the
\* names counted as rejected plus the accepted ones, and after any number
\* of sessions the cumulative total_checked is total_rejected plus
\* total_approved.
C19_CountersConsistent ==
    /\ total_checked = total_rejected + Len(unique_names)
    /\ validation_stats.total_checked =
           validation_stats.total_rejected + validation_stats.total_approved

C19_Witness ==
    /\ pc = "done" /\ sessions = MaxSessions
    /\ Len(unique_names) > 0 /\ total_rejected > 0
    /\ validation_stats.total_approved > Len(unique_names)
    /\ validation_stats.total_rejected > total_rejected

\* A step in which a session ends.
SessionEnds == pc # "done" /\ pc' = "done"

\* C20: a session that ends with no accepted name, or that an empty
\* generation result ends, leaves the cumulative counters as they were,
\* whatever it checked and rejected; the cumulative counters change at the
\* end of a session only if it returns at least one name, and then by
\* exactly that session's counts.
C20_OnlyReturnedNamesAreMerged ==
    [][ /\ ( /\ SessionEnds
             /\ (Len(unique_names') = 0 \/ Last(events') = "ai_generation_failed") ) =>
               validation_stats' = validation_stats
        /\ (SessionEnds /\ validation_stats' # validation_stats) =>
               /\ ~ret'.is_none /\ ret'.names = unique_names' /\ Len(ret'.names) >= 1
               /\ validation_stats'.total_checked =
                      validation_stats.total_checked + total_checked'
               /\ validation_stats'.total_rejected =
                      validation_stats.total_rejected + total_rejected'
               /\ validation_stats'.total_approved =
                      validation_stats.total_approved + Len(unique_names')
        /\ (pc \in {"while", "validate"} /\ pc' # "done") =>
               validation_stats' = validation_stats
      ]_vars

C20_Witness ==
    /\ pc = "done" /\ sessions = MaxSessions
    /\ ret.is_none /\ total_checked > 0
    /\ validation_stats.present
    /\ validation_stats.total_checked > 0
    /\ validation_stats.total_approved > 0

====
